---------------------------- MODULE Spec2Model ----------------------------
(***************************************************************************)
(* A model of the astrict IR-to-GLSL emitter (libs/astrict/src/ToGlsl.cpp). *)
(*                                                                         *)
(* toGlsl is a recursive walk over a read-only Pack that appends text to   *)
(* one output stream.  The walk is modelled with an explicit call stack:   *)
(* a call of a dump function replaces the item on top of the stack by the  *)
(* things the function does, in the order it does them (the text it        *)
(* appends, the calls it makes, a failing precondition), followed by the   *)
(* item at which the call returns.  One step runs the item on top.         *)
(*                                                                         *)
(* The stream record em holds                                              *)
(*   out   the text appended so far (a string),                            *)
(*   st    "ok", or the way the walk was aborted:                          *)
(*           "precondition"  ASSERT_PRECONDITION / PANIC_PRECONDITION,     *)
(*           "out_of_range"  unordered_map::at on a missing key,           *)
(*           "overflow"      the call stack is exhausted,                  *)
(*   looks the number of table lookups (find / at) performed,              *)
(*   maxsd the largest number of dumpBlock / dumpRValue frames that were   *)
(*         on the call stack together,                                     *)
(*   log   one record per call that returned or was unwound by a fault:    *)
(*         the function, its arguments, the text of the stream when it was *)
(*         called (pre) and when it was left (post), and the status then.  *)
(* A fault unwinds the whole stack at once; the text appended before the   *)
(* fault stays in the stream.                                              *)
(*                                                                         *)
(* The module also models CappedArray (filament/backend/src/vulkan/utils/  *)
(* CappedArray.h): two arrays a and b and the operations of the class on   *)
(* them, see the section on CappedArray below.                             *)
(***************************************************************************)
EXTENDS Integers, Sequences, FiniteSets, TLC

VARIABLES pack, pc, idx, fn, stack, em, arr, ghost, ret

\* the variables of the emitter
evars == <<pack, pc, idx, fn, stack, em>>

\* the variables of the CappedArrays
cvars == <<arr, ghost, ret>>

vars == <<pack, pc, idx, fn, stack, em, arr, ghost, ret>>

(***************************************************************************)
(* Bounds of the model.                                                    *)
(***************************************************************************)
\* the longest functionPrototypes list drawn
MaxPrototypes == 2
\* the longest functionDefinitionOrder list drawn
MaxDefinitions == 2
\* the longest parameter list drawn for the varied function
MaxParameters == 2
\* the longest statement block drawn for the varied body block
MaxStatements == 2
\* the longest argument list drawn for the varied rvalue
MaxArgs == 3
\* the number of dumpBlock / dumpRValue frames the call stack can hold
StackLimit == 8

(***************************************************************************)
(* ToGlsl.cpp:28-29                                                        *)
(***************************************************************************)
kIndentAmount == "  "
kSpace == " "

(***************************************************************************)
(* The stream.                                                             *)
(***************************************************************************)
NewStream ==
    [out |-> "", st |-> "ok", looks |-> 0, maxsd |-> 0, log |-> <<>>]

\* out << txt
Emit(s, txt) == IF s.st = "ok" THEN [s EXCEPT !.out = @ \o txt] ELSE s

\* a failed ASSERT_PRECONDITION, or PANIC_PRECONDITION
Panic(s) == IF s.st = "ok" THEN [s EXCEPT !.st = "precondition"] ELSE s

\* unordered_map::at on a key the map does not hold
OutOfRange(s) == IF s.st = "ok" THEN [s EXCEPT !.st = "out_of_range"] ELSE s

\* no room for one more frame on the call stack
Overflow(s) == IF s.st = "ok" THEN [s EXCEPT !.st = "overflow"] ELSE s

\* one find() or at() on a table
Lookup(s) == IF s.st = "ok" THEN [s EXCEPT !.looks = @ + 1] ELSE s

\* the record of a call that is left with the stream s; the call was made
\* with the text call.pre in the stream, after call.at lookups
CallEntry(call, s) ==
    call @@ [post |-> s.out, st |-> s.st, looks |-> s.looks - call.at]

\* the call (a function and its arguments) that took the stream from s to r
\* is recorded
LogCall(s, r, call) ==
    [r EXCEPT !.log = Append(@, CallEntry(call @@ [pre |-> s.out,
                                                   at |-> s.looks], r))]

(***************************************************************************)
(* Strings as character sequences, for std::string::find / substr.         *)
(***************************************************************************)
RECURSIVE Join(_)
Join(cs) == IF cs = <<>> THEN "" ELSE Head(cs) \o Join(Tail(cs))

\* name.find('('): the index (from 0) of the first '(', or npos
RECURSIVE FindParenFrom(_, _)
FindParenFrom(cs, i) ==
    IF i > Len(cs) THEN Len(cs)
    ELSE IF cs[i] = "(" THEN i - 1
    ELSE FindParenFrom(cs, i + 1)

\* name.substr(0, n)
Substr0(cs, n) == SubSeq(cs, 1, IF n < Len(cs) THEN n ELSE Len(cs))

(***************************************************************************)
(* Value references (std::variant<RValueId, GlobalSymbolId, LocalSymbolId>)*)
(***************************************************************************)
RV(i) == [k |-> "RValueId", id |-> i]
GS(i) == [k |-> "GlobalSymbolId", id |-> i]
LS(i) == [k |-> "LocalSymbolId", id |-> i]

(***************************************************************************)
(* RValues (std::variant<EvaluableRValue, LiteralRValue>)                  *)
(***************************************************************************)
OpRValue(op, args) == [kind |-> "operator", op |-> op, fn |-> 0, args |-> args]
CallRValue(f, args) == [kind |-> "call", op |-> "", fn |-> f, args |-> args]
\* the literal 1
LiteralRValue ==
    [kind |-> "literal", op |-> "", fn |-> 0, args |-> <<>>, value |-> 1]

UnaryOperators ==
    {"Negative", "LogicalNot", "BitwiseNot", "PostIncrement", "PostDecrement",
     "PreIncrement", "PreDecrement", "ArrayLength"}

BinaryOperators ==
    {"Add", "Sub", "Mul", "Div", "Mod", "RightShift", "LeftShift", "And",
     "InclusiveOr", "ExclusiveOr", "Equal", "NotEqual", "LessThan",
     "GreaterThan", "LessThanEqual", "GreaterThanEqual", "Comma", "LogicalOr",
     "LogicalXor", "LogicalAnd", "Index", "Assign", "AddAssign", "SubAssign",
     "MulAssign", "DivAssign", "ModAssign", "AndAssign", "InclusiveOrAssign",
     "ExclusiveOrAssign", "LeftShiftAssign", "RightShiftAssign"}

TernaryOperators == {"Ternary"}

\* operators with no case of their own in dumpRValueOperator
OtherOperators == {"ConstructStruct", "IndexStruct", "VectorSwizzle"}

RValueOperator ==
    UnaryOperators \cup BinaryOperators \cup TernaryOperators \cup OtherOperators

\* the operator's name, as printed by the default case
rValueOperatorToString(op) == op

(***************************************************************************)
(* Statements (std::variant<RValueId, IfStatement, SwitchStatement,        *)
(* BranchStatement, LoopStatement>).  An absent std::optional is has* =    *)
(* FALSE.                                                                  *)
(***************************************************************************)
ExpressionStatement(r) == [kind |-> "expression", rValueId |-> r]
IfStatement(c, t) ==
    [kind |-> "if", condition |-> c, thenBlock |-> t,
     hasElse |-> FALSE, elseBlock |-> 0]
IfElseStatement(c, t, e) ==
    [kind |-> "if", condition |-> c, thenBlock |-> t,
     hasElse |-> TRUE, elseBlock |-> e]
SwitchStatement(c, b) == [kind |-> "switch", condition |-> c, body |-> b]
BranchStatement(op) ==
    [kind |-> "branch", op |-> op, hasOperand |-> FALSE, operand |-> RV(0)]
BranchStatementWith(op, v) ==
    [kind |-> "branch", op |-> op, hasOperand |-> TRUE, operand |-> v]
LoopStatement(testFirst, c, b) ==
    [kind |-> "loop", testFirst |-> testFirst, hasTerminal |-> FALSE,
     terminal |-> 0, condition |-> c, body |-> b]
LoopStatementWith(testFirst, terminal, c, b) ==
    [kind |-> "loop", testFirst |-> testFirst, hasTerminal |-> TRUE,
     terminal |-> terminal, condition |-> c, body |-> b]

BranchOperator ==
    {"Discard", "TerminateInvocation", "Demote", "TerminateRayEXT",
     "IgnoreIntersectionEXT", "Return", "Break", "Continue", "Case", "Default"}

(***************************************************************************)
(* Table lookups.  A table is a function from handles to entries.          *)
(***************************************************************************)
Has(table, id) == id \in DOMAIN table

\* function.localSymbols: the entries in table order, each [id, type, name]
HasLocal(f, id) == \E i \in 1..Len(f.localSymbols) : f.localSymbols[i].id = id
LocalSymbolIds(f) == {f.localSymbols[i].id : i \in 1..Len(f.localSymbols)}
LocalAt(f, id) ==
    f.localSymbols[CHOOSE i \in 1..Len(f.localSymbols) : f.localSymbols[i].id = id]

(***************************************************************************)
(* The items of the call stack.                                            *)
(***************************************************************************)
\* out << t
Text(t) == [k |-> "text", t |-> t]
\* out << indent (or indentMinusOne) at the start of a statement
Indent(t) == [k |-> "indent", t |-> t]
\* a precondition that fails
PanicItem == [k |-> "panic"]
\* calls
TypeItem(id) == [k |-> "type", id |-> id]
FunctionNameItem(id) == [k |-> "functionName", id |-> id]
GlobalSymbolItem(id) == [k |-> "globalSymbol", id |-> id]
LocalSymbolItem(id, withType) ==
    [k |-> "localSymbol", id |-> id, withType |-> withType]
RValueItem(id) == [k |-> "rvalue", id |-> id]
BlockItem(id, depth) == [k |-> "block", id |-> id, depth |-> depth]
StatementItem(statement, depth) ==
    [k |-> "statement", statement |-> statement, depth |-> depth]
\* the return of a call that was recorded when it was made
ReturnItem(call) == [k |-> "return", call |-> call]

\* the dumpBlock / dumpRValue frames on the stack k
Frames(k) ==
    Cardinality({i \in 1..Len(k) :
        k[i].k = "return" /\ k[i].call.fn \in {"dumpBlock", "dumpRValue"}})

\* one more dumpBlock / dumpRValue frame on top of the stack k
Enter(s, k) ==
    IF Frames(k) >= StackLimit THEN Overflow(s)
    ELSE [s EXCEPT !.maxsd = IF Frames(k) + 1 > @ THEN Frames(k) + 1 ELSE @]

IsReturn(item) == item.k = "return"

\* a fault unwinds the calls on the stack k, innermost first
Unwind(s, k) ==
    LET calls == SelectSeq(k, IsReturn)
    IN  [s EXCEPT !.log = @ \o [i \in 1..Len(calls) |-> CallEntry(calls[i].call, s)]]

\* a variant of dumpFunctionName that prints the whole stored name
dumpFunctionNameWhole(p, functionId, s) ==
    LET r == IF ~Has(p.functionNames, functionId) THEN OutOfRange(Lookup(s))
             ELSE Emit(Lookup(s), Join(p.functionNames[functionId]))
    IN  LogCall(s, r, [fn |-> "dumpFunctionName", id |-> functionId])

(***************************************************************************)
(* dumpFunctionName, ToGlsl.cpp:31-36                                      *)
(***************************************************************************)
dumpFunctionName(p, functionId, s) ==
    LET r == IF ~Has(p.functionNames, functionId) THEN OutOfRange(Lookup(s))
             ELSE LET name == p.functionNames[functionId]
                      indexParenthesis == FindParenFrom(name, 1)
                  IN  Emit(Lookup(s), Join(Substr0(name, indexParenthesis)))
    IN  LogCall(s, r, [fn |-> "dumpFunctionName", id |-> functionId])

(***************************************************************************)
(* dumpType, ToGlsl.cpp:38-49                                              *)
(***************************************************************************)
RECURSIVE dumpArraySizes(_, _, _)
dumpArraySizes(arraySizes, i, s) ==
    IF i > Len(arraySizes) THEN s
    ELSE dumpArraySizes(arraySizes, i + 1,
                        Emit(s, "[" \o ToString(arraySizes[i]) \o "]"))

dumpType(p, typeId, s) ==
    LET r == IF ~Has(p.types, typeId) THEN Panic(Lookup(s))
             ELSE LET type == p.types[typeId]
                      s1 == Lookup(Lookup(s))
                      s2 == IF type.precision # ""
                            THEN Emit(s1, type.precision \o " ")
                            ELSE s1
                  IN  dumpArraySizes(type.arraySizes, 1, Emit(s2, type.name))
    IN  LogCall(s, r, [fn |-> "dumpType", id |-> typeId])

\* a variant of dumpGlobalSymbol that looks the handle up before the
\* sentinel test
dumpGlobalSymbolFindFirst(p, globalSymbolId, s) ==
    LET r == IF globalSymbolId = 0
             THEN Emit(Lookup(s), "INVALID_GLOBAL_SYMBOL")
             ELSE IF ~Has(p.globalSymbols, globalSymbolId) THEN Panic(Lookup(s))
             ELSE Emit(Lookup(Lookup(s)), p.globalSymbols[globalSymbolId].name)
    IN  LogCall(s, r, [fn |-> "dumpGlobalSymbol", id |-> globalSymbolId])

(***************************************************************************)
(* dumpGlobalSymbol, ToGlsl.cpp:303-314                                    *)
(***************************************************************************)
dumpGlobalSymbol(p, globalSymbolId, s) ==
    LET r == IF globalSymbolId = 0 THEN Emit(s, "INVALID_GLOBAL_SYMBOL")
             ELSE IF ~Has(p.globalSymbols, globalSymbolId) THEN Panic(Lookup(s))
             ELSE Emit(Lookup(Lookup(s)), p.globalSymbols[globalSymbolId].name)
    IN  LogCall(s, r, [fn |-> "dumpGlobalSymbol", id |-> globalSymbolId])

(***************************************************************************)
(* dumpLocalSymbol, ToGlsl.cpp:316-332                                     *)
(***************************************************************************)
dumpLocalSymbol(p, function, localSymbolId, withType, s) ==
    LET r == IF localSymbolId = 0 THEN Emit(s, "INVALID_LOCAL_SYMBOL")
             ELSE IF ~HasLocal(function, localSymbolId) THEN Panic(Lookup(s))
             ELSE LET localSymbol == LocalAt(function, localSymbolId)
                      s1 == Lookup(Lookup(s))
                      s2 == IF withType
                            THEN Emit(dumpType(p, localSymbol.type, s1), " ")
                            ELSE s1
                  IN  Emit(s2, localSymbol.name)
    IN  LogCall(s, r, [fn |-> "dumpLocalSymbol", id |-> localSymbolId,
                       symbols |-> LocalSymbolIds(function)])

(***************************************************************************)
(* dumpValue, ToGlsl.cpp:334-346: the call it dispatches to                *)
(***************************************************************************)
dumpValue(valueId) ==
    CASE valueId.k = "RValueId" -> RValueItem(valueId.id)
      [] valueId.k = "GlobalSymbolId" -> GlobalSymbolItem(valueId.id)
      [] valueId.k = "LocalSymbolId" -> LocalSymbolItem(valueId.id, FALSE)
      [] OTHER -> PanicItem

\* a variant of dumpBinaryRValueOperator that tests the arity after "("
dumpBinaryRValueOperatorParenFirst(op, args, opString) ==
    IF Len(args) # 2 THEN <<Text("("), PanicItem>>
    ELSE <<Text("("), dumpValue(args[1]),
           Text(kSpace \o opString \o kSpace), dumpValue(args[2]), Text(")")>>

\* a variant of dumpBinaryRValueOperator with no space after the symbol
dumpBinaryRValueOperatorNoSpace(op, args, opString) ==
    IF Len(args) # 2 THEN <<PanicItem>>
    ELSE <<Text("("), dumpValue(args[1]),
           Text(kSpace \o opString), dumpValue(args[2]), Text(")")>>

(***************************************************************************)
(* dumpBinaryRValueOperator, ToGlsl.cpp:55-67                              *)
(***************************************************************************)
dumpBinaryRValueOperator(op, args, opString) ==
    IF Len(args) # 2 THEN <<PanicItem>>
    ELSE <<Text("("), dumpValue(args[1]),
           Text(kSpace \o opString \o kSpace), dumpValue(args[2]), Text(")")>>

(***************************************************************************)
(* dumpRValueOperator, ToGlsl.cpp:69-258                                   *)
(***************************************************************************)
\* for (auto& arg : args) { out << kSpace; dumpValue(arg); }
defaultOperatorArgs(args) ==
    [i \in 1..(2 * Len(args)) |->
        IF i % 2 = 1 THEN Text(kSpace) ELSE dumpValue(args[i \div 2])]

dumpRValueOperator(op, args) ==
    CASE op = "Negative" ->
           IF Len(args) # 1 THEN <<PanicItem>>
           ELSE <<Text("-("), dumpValue(args[1]), Text(")")>>
      [] op = "LogicalNot" ->
           IF Len(args) # 1 THEN <<PanicItem>>
           ELSE <<Text("!("), dumpValue(args[1]), Text(")")>>
      [] op = "BitwiseNot" ->
           IF Len(args) # 1 THEN <<PanicItem>>
           ELSE <<Text("~("), dumpValue(args[1]), Text(")")>>
      [] op = "PostIncrement" ->
           IF Len(args) # 1 THEN <<PanicItem>>
           ELSE <<dumpValue(args[1]), Text("++")>>
      [] op = "PostDecrement" ->
           IF Len(args) # 1 THEN <<PanicItem>>
           ELSE <<dumpValue(args[1]), Text("--")>>
      [] op = "PreIncrement" ->
           IF Len(args) # 1 THEN <<PanicItem>>
           ELSE <<Text("++"), dumpValue(args[1])>>
      [] op = "PreDecrement" ->
           IF Len(args) # 1 THEN <<PanicItem>>
           ELSE <<Text("--"), dumpValue(args[1])>>
      [] op = "ArrayLength" ->
           IF Len(args) # 1 THEN <<PanicItem>>
           ELSE <<dumpValue(args[1]), Text(".length")>>
      [] op = "Add" -> dumpBinaryRValueOperator(op, args, "+")
      [] op = "Sub" -> dumpBinaryRValueOperator(op, args, "-")
      [] op = "Mul" -> dumpBinaryRValueOperator(op, args, "*")
      [] op = "Div" -> dumpBinaryRValueOperator(op, args, "/")
      [] op = "Mod" -> dumpBinaryRValueOperator(op, args, "%")
      [] op = "RightShift" -> dumpBinaryRValueOperator(op, args, ">>")
      [] op = "LeftShift" -> dumpBinaryRValueOperator(op, args, "<<")
      [] op = "And" -> dumpBinaryRValueOperator(op, args, "&")
      [] op = "InclusiveOr" -> dumpBinaryRValueOperator(op, args, "|")
      [] op = "ExclusiveOr" -> dumpBinaryRValueOperator(op, args, "^")
      [] op = "Equal" -> dumpBinaryRValueOperator(op, args, "==")
      [] op = "NotEqual" -> dumpBinaryRValueOperator(op, args, "!=")
      [] op = "LessThan" -> dumpBinaryRValueOperator(op, args, "<")
      [] op = "GreaterThan" -> dumpBinaryRValueOperator(op, args, ">")
      [] op = "LessThanEqual" -> dumpBinaryRValueOperator(op, args, "<=")
      [] op = "GreaterThanEqual" -> dumpBinaryRValueOperator(op, args, ">=")
      [] op = "Comma" -> dumpBinaryRValueOperator(op, args, ",")
      [] op = "LogicalOr" -> dumpBinaryRValueOperator(op, args, "||")
      [] op = "LogicalXor" -> dumpBinaryRValueOperator(op, args, "^^")
      [] op = "LogicalAnd" -> dumpBinaryRValueOperator(op, args, "&&")
      [] op = "Index" ->
           IF Len(args) # 2 THEN <<PanicItem>>
           ELSE <<dumpValue(args[1]), Text("["), dumpValue(args[2]), Text("]")>>
      [] op = "Assign" -> dumpBinaryRValueOperator(op, args, "=")
      [] op = "AddAssign" -> dumpBinaryRValueOperator(op, args, "+=")
      [] op = "SubAssign" -> dumpBinaryRValueOperator(op, args, "-=")
      [] op = "MulAssign" -> dumpBinaryRValueOperator(op, args, "*=")
      [] op = "DivAssign" -> dumpBinaryRValueOperator(op, args, "/=")
      [] op = "ModAssign" -> dumpBinaryRValueOperator(op, args, "%=")
      [] op = "AndAssign" -> dumpBinaryRValueOperator(op, args, "&=")
      [] op = "InclusiveOrAssign" -> dumpBinaryRValueOperator(op, args, "|=")
      [] op = "ExclusiveOrAssign" -> dumpBinaryRValueOperator(op, args, "^=")
      [] op = "LeftShiftAssign" -> dumpBinaryRValueOperator(op, args, "<<=")
      [] op = "RightShiftAssign" -> dumpBinaryRValueOperator(op, args, ">>=")
      [] op = "Ternary" ->
           IF Len(args) # 3 THEN <<PanicItem>>
           ELSE <<Text("(("), dumpValue(args[1]),
                  Text(")" \o kSpace \o "?" \o kSpace \o "("), dumpValue(args[2]),
                  Text(")" \o kSpace \o ":" \o kSpace \o "("), dumpValue(args[3]),
                  Text("))")>>
      [] OTHER ->
           <<Text("(" \o rValueOperatorToString(op))>>
               \o defaultOperatorArgs(args) \o <<Text(")")>>

(***************************************************************************)
(* dumpRValueFunctionCall, ToGlsl.cpp:260-276                              *)
(***************************************************************************)
\* the loop over args: "," kSpace before every argument but the first
callArgs(args) ==
    [i \in 1..(IF args = <<>> THEN 0 ELSE 2 * Len(args) - 1) |->
        IF i % 2 = 1 THEN dumpValue(args[(i + 1) \div 2])
        ELSE Text("," \o kSpace)]

dumpRValueFunctionCall(functionId, args) ==
    <<FunctionNameItem(functionId), Text("(")>> \o callArgs(args) \o <<Text(")")>>

\* a variant of dumpRValue that handles a literal by calling itself
dumpRValueLiteralAgain(p, rValueId) ==
    IF rValueId = 0 THEN <<Text("INVALID_RVALUE")>>
    ELSE IF ~Has(p.rValues, rValueId) THEN <<PanicItem>>
    ELSE LET rValue == p.rValues[rValueId]
         IN  CASE rValue.kind = "operator" ->
                    dumpRValueOperator(rValue.op, rValue.args)
                        \o <<ReturnItem([fn |-> "dumpRValueOperator",
                                         op |-> rValue.op, args |-> rValue.args])>>
               [] rValue.kind = "call" ->
                    dumpRValueFunctionCall(rValue.fn, rValue.args)
               [] rValue.kind = "literal" -> <<RValueItem(rValueId)>>
               [] OTHER -> <<PanicItem>>

(***************************************************************************)
(* dumpRValue, ToGlsl.cpp:278-301: what the call does once it is entered   *)
(***************************************************************************)
\* the find() and at() calls dumpRValue makes on rValues
dumpRValueLookups(p, rValueId) ==
    IF rValueId = 0 THEN 0 ELSE IF ~Has(p.rValues, rValueId) THEN 1 ELSE 2

dumpRValue(p, rValueId) ==
    IF rValueId = 0 THEN <<Text("INVALID_RVALUE")>>
    ELSE IF ~Has(p.rValues, rValueId) THEN <<PanicItem>>
    ELSE LET rValue == p.rValues[rValueId]
         IN  CASE rValue.kind = "operator" ->
                    dumpRValueOperator(rValue.op, rValue.args)
                        \o <<ReturnItem([fn |-> "dumpRValueOperator",
                                         op |-> rValue.op, args |-> rValue.args])>>
               [] rValue.kind = "call" ->
                    dumpRValueFunctionCall(rValue.fn, rValue.args)
               [] rValue.kind = "literal" -> <<Text("LITERAL")>>
               [] OTHER -> <<PanicItem>>

(***************************************************************************)
(* The indentation strings of dumpBlock, ToGlsl.cpp:353-360                *)
(***************************************************************************)
\* for (int i = 0; i < depth - 1; ++i) indentMinusOne += kIndentAmount;
RECURSIVE indentLoop(_, _, _)
indentLoop(i, depth, acc) ==
    IF i < depth - 1 THEN indentLoop(i + 1, depth, acc \o kIndentAmount)
    ELSE acc

indentMinusOneOf(depth) == indentLoop(0, depth, "")

indentOf(depth) ==
    IF depth > 0 THEN indentMinusOneOf(depth) \o kIndentAmount
    ELSE indentMinusOneOf(depth)

(***************************************************************************)
(* The branch statement of dumpBlock, ToGlsl.cpp:382-427                   *)
(***************************************************************************)
\* a variant of branchKeyword that indents every keyword alike
branchKeywordOneIndent(op, indentMinusOne, indent) ==
    CASE op = "Discard" -> <<Indent(indent), Text("discard")>>
      [] op = "TerminateInvocation" -> <<Indent(indent), Text("terminateInvocation")>>
      [] op = "Demote" -> <<Indent(indent), Text("demote")>>
      [] op = "TerminateRayEXT" -> <<Indent(indent), Text("terminateRayEXT")>>
      [] op = "IgnoreIntersectionEXT" ->
           <<Indent(indent), Text("terminateIntersectionEXT")>>
      [] op = "Return" -> <<Indent(indent), Text("return")>>
      [] op = "Break" -> <<Indent(indent), Text("break")>>
      [] op = "Continue" -> <<Indent(indent), Text("continue")>>
      [] op = "Case" -> <<Indent(indent), Text("case")>>
      [] op = "Default" -> <<Indent(indent), Text("default")>>
      [] OTHER -> <<>>

\* the first switch: the indentation, then the keyword
branchKeyword(op, indentMinusOne, indent) ==
    CASE op = "Discard" -> <<Indent(indent), Text("discard")>>
      [] op = "TerminateInvocation" -> <<Indent(indent), Text("terminateInvocation")>>
      [] op = "Demote" -> <<Indent(indent), Text("demote")>>
      [] op = "TerminateRayEXT" -> <<Indent(indent), Text("terminateRayEXT")>>
      [] op = "IgnoreIntersectionEXT" ->
           <<Indent(indent), Text("terminateIntersectionEXT")>>
      [] op = "Return" -> <<Indent(indent), Text("return")>>
      [] op = "Break" -> <<Indent(indent), Text("break")>>
      [] op = "Continue" -> <<Indent(indent), Text("continue")>>
      [] op = "Case" -> <<Indent(indentMinusOne), Text("case")>>
      [] op = "Default" -> <<Indent(indentMinusOne), Text("default")>>
      [] OTHER -> <<>>

\* a variant of branchTerminator that ends every branch with ";"
branchTerminatorSemicolon(op) == Text(";\n")

\* the second switch: the terminator
branchTerminator(op) ==
    IF op \in {"Case", "Default"} THEN Text(":\n") ELSE Text(";\n")

(***************************************************************************)
(* The loop statement of dumpBlock, ToGlsl.cpp:428-448                     *)
(***************************************************************************)
\* a variant of loopStatement that ends the terminal of a for with ";"
loopStatementTerminated(statement, depth, indent) ==
    IF statement.testFirst
    THEN (IF statement.hasTerminal
          THEN <<Indent(indent), Text("for" \o kSpace \o "(;" \o kSpace),
                 dumpValue(statement.condition), Text(";" \o kSpace),
                 RValueItem(statement.terminal), Text(";")>>
          ELSE <<Indent(indent), Text("while" \o kSpace \o "("),
                 dumpValue(statement.condition)>>)
         \o <<Text(")" \o kSpace \o "{\n"),
              BlockItem(statement.body, depth + 1),
              Text(indent \o "}\n")>>
    ELSE <<Indent(indent), Text("do" \o kSpace \o "{\n"),
           BlockItem(statement.body, depth + 1),
           Text(indent \o "}" \o kSpace \o "while" \o kSpace \o "("),
           dumpValue(statement.condition), Text(");\n")>>

loopStatement(statement, depth, indent) ==
    IF statement.testFirst
    THEN (IF statement.hasTerminal
          THEN <<Indent(indent), Text("for" \o kSpace \o "(;" \o kSpace),
                 dumpValue(statement.condition), Text(";" \o kSpace),
                 RValueItem(statement.terminal)>>
          ELSE <<Indent(indent), Text("while" \o kSpace \o "("),
                 dumpValue(statement.condition)>>)
         \o <<Text(")" \o kSpace \o "{\n"),
              BlockItem(statement.body, depth + 1),
              Text(indent \o "}\n")>>
    ELSE <<Indent(indent), Text("do" \o kSpace \o "{\n"),
           BlockItem(statement.body, depth + 1),
           Text(indent \o "}" \o kSpace \o "while" \o kSpace \o "("),
           dumpValue(statement.condition), Text(");\n")>>

(***************************************************************************)
(* dumpBlock, ToGlsl.cpp:348-453: one iteration of the loop over the       *)
(* statements of the block                                                 *)
(***************************************************************************)
dumpStatement(statement, depth) ==
    LET indentMinusOne == indentMinusOneOf(depth)
        indent == indentOf(depth)
    IN  CASE statement.kind = "expression" ->
               <<Indent(indent), RValueItem(statement.rValueId), Text(";\n")>>
          [] statement.kind = "if" ->
               <<Indent(indent), Text("if" \o kSpace \o "("),
                 dumpValue(statement.condition), Text(")" \o kSpace \o "{\n"),
                 BlockItem(statement.thenBlock, depth + 1)>>
               \o (IF statement.hasElse
                   THEN <<Text(indent \o "}" \o kSpace \o "else" \o kSpace \o "{\n"),
                          BlockItem(statement.elseBlock, depth + 1)>>
                   ELSE <<>>)
               \o <<Text(indent \o "}\n")>>
          [] statement.kind = "switch" ->
               <<Indent(indent), Text("switch" \o kSpace \o "("),
                 dumpValue(statement.condition), Text(")" \o kSpace \o "{\n"),
                 BlockItem(statement.body, depth + 1), Text(indent \o "}\n")>>
          [] statement.kind = "branch" ->
               branchKeyword(statement.op, indentMinusOne, indent)
               \o (IF statement.hasOperand
                   THEN <<Text(" "), dumpValue(statement.operand)>>
                   ELSE <<>>)
               \o <<branchTerminator(statement.op)>>
          [] statement.kind = "loop" -> loopStatement(statement, depth, indent)
          [] OTHER -> <<PanicItem>>

\* the body of dumpBlock once the block was found: its statements in order
dumpBlock(p, blockId, depth) ==
    IF ~Has(p.statementBlocks, blockId) THEN <<PanicItem>>
    ELSE LET statements == p.statementBlocks[blockId]
         IN  [i \in 1..Len(statements) |-> StatementItem(statements[i], depth)]

\* the find() and at() calls dumpBlock makes on statementBlocks
dumpBlockLookups(p, blockId) == IF ~Has(p.statementBlocks, blockId) THEN 1 ELSE 2

(***************************************************************************)
(* dumpFunction, ToGlsl.cpp:455-495                                        *)
(***************************************************************************)
\* a variant of skipsFunction that returns early in both passes
skipsFunctionInBothPasses(p, functionId, dumpBody) ==
    ~Has(p.functionDefinitions, functionId)

\* the early return of the prototype pass, ToGlsl.cpp:458-461
skipsFunction(p, functionId, dumpBody) ==
    ~dumpBody /\ ~Has(p.functionDefinitions, functionId)

\* the loop over function.parameters, ToGlsl.cpp:471-479
dumpParameters(function) ==
    LET n == Len(function.parameters)
    IN  [i \in 1..(IF n = 0 THEN 0 ELSE 2 * n - 1) |->
            IF i % 2 = 1
            THEN LocalSymbolItem(function.parameters[(i + 1) \div 2].name, TRUE)
            ELSE Text("," \o kSpace)]

\* parameterSymbolIds once the parameter loop is over
parameterSymbolIdsOf(function) ==
    {function.parameters[i].name : i \in 1..Len(function.parameters)}

\* a variant of declaresLocal that declares every entry
declaresLocalAlways(function, localSymbol) == TRUE

\* whether the loop over function.localSymbols declares the entry
declaresLocal(function, localSymbol) ==
    localSymbol.id \notin parameterSymbolIdsOf(function)

\* the entries of function.localSymbols in the order the range-for visits
\* them: the order they were inserted in
localSymbolsInOrder(function) == function.localSymbols

\* the loop over function.localSymbols, ToGlsl.cpp:483-489
RECURSIVE dumpLocals(_, _)
dumpLocals(function, i) ==
    IF i > Len(localSymbolsInOrder(function)) THEN <<>>
    ELSE LET localSymbol == localSymbolsInOrder(function)[i]
         IN  (IF declaresLocal(function, localSymbol)
              THEN <<Text(kIndentAmount), TypeItem(localSymbol.type),
                     Text(kSpace \o localSymbol.name \o ";\n")>>
              ELSE <<>>)
             \o dumpLocals(function, i + 1)

\* what dumpFunction does once the definition was found
dumpFunction(p, functionId, dumpBody) ==
    IF skipsFunction(p, functionId, dumpBody) THEN <<>>
    ELSE IF ~Has(p.functionDefinitions, functionId) THEN <<PanicItem>>
    ELSE LET function == p.functionDefinitions[functionId]
         IN  <<TypeItem(function.returnType), Text(" "),
               FunctionNameItem(function.name), Text("(")>>
             \o dumpParameters(function)
             \o <<Text(")")>>
             \o (IF dumpBody
                 THEN <<Text(" {\n")>> \o dumpLocals(function, 1)
                      \o <<BlockItem(function.body, 1), Text("}\n")>>
                 ELSE <<Text(";\n")>>)

\* the find() and at() calls dumpFunction makes on functionDefinitions
dumpFunctionLookups(p, functionId, dumpBody) ==
    (IF dumpBody THEN 0 ELSE 1)
    + (IF skipsFunction(p, functionId, dumpBody) THEN 0
       ELSE IF ~Has(p.functionDefinitions, functionId) THEN 1 ELSE 2)

(***************************************************************************)
(* The Packs the emitter is run on.  Handle 9 has no entry in any table.   *)
(***************************************************************************)
Type(name, precision, arraySizes) ==
    [name |-> name, precision |-> precision, arraySizes |-> arraySizes]

LocalSymbol(id, type, name) == [id |-> id, type |-> type, name |-> name]

FunctionParameter(name, type) == [name |-> name, type |-> type]

FunctionDefinition(returnType, name, parameters, localSymbols, body) ==
    [returnType |-> returnType, name |-> name, parameters |-> parameters,
     localSymbols |-> localSymbols, body |-> body]

\* all sequences over S of length at most n
SeqUpTo(S, n) == UNION {[1..k -> S] : k \in 0..n}

BaseTypes ==
    (1 :> Type("float", "", <<>>)) @@
    (2 :> Type("vec3", "highp", <<>>)) @@
    (3 :> Type("int", "", <<4, 2>>)) @@
    (4 :> Type("void", "", <<>>))

\* names as glslang mangles them: the name, then '(' and the parameter types
BaseFunctionNames ==
    (1 :> <<"f", "(", "f", "1", ";", "f", "1", ";">>) @@
    (2 :> <<"m", "a", "i", "n", "(">>) @@
    (3 :> <<"s", "i", "n", "(", "f", "1", ";">>) @@
    (4 :> <<"g">>)

BaseGlobalSymbols ==
    (1 :> [name |-> "gl_Position"]) @@ (2 :> [name |-> "u"])

\* rvalue 10 is the one whose contents are varied
BaseRValues ==
    (1 :> OpRValue("Add", <<LS(1), LS(2)>>)) @@
    (2 :> OpRValue("LogicalNot", <<LS(5)>>)) @@
    (3 :> LiteralRValue) @@
    (4 :> OpRValue("AddAssign", <<LS(5), RV(3)>>)) @@
    (5 :> CallRValue(3, <<LS(5), GS(2)>>)) @@
    (6 :> CallRValue(9, <<>>)) @@
    (7 :> OpRValue("PostIncrement", <<LS(4)>>)) @@
    (8 :> OpRValue("LessThan", <<LS(4), GS(0)>>)) @@
    (11 :> OpRValue("Negative", <<RV(11)>>)) @@
    (12 :> OpRValue("Ternary", <<RV(0), GS(0), LS(0)>>)) @@
    (10 :> LiteralRValue)

\* block 2 is the one whose contents are varied
BaseStatementBlocks ==
    (1 :> <<BranchStatementWith("Return", RV(1))>>) @@
    (2 :> <<IfElseStatement(RV(2), 3, 4),
                   LoopStatementWith(TRUE, 7, RV(8), 4)>>) @@
    (3 :> <<SwitchStatement(LS(4), 5), BranchStatement("Return")>>) @@
    (4 :> <<>>) @@
    (5 :> <<BranchStatementWith("Case", RV(3)), ExpressionStatement(4),
            BranchStatement("Break"), BranchStatement("Default"),
            BranchStatement("Discard")>>) @@
    (6 :> <<BranchStatement("TerminateInvocation"), BranchStatement("Demote"),
            BranchStatement("TerminateRayEXT"),
            BranchStatement("IgnoreIntersectionEXT"),
            BranchStatement("Continue"), LoopStatement(FALSE, LS(5), 4),
            IfStatement(RV(2), 7)>>) @@
    (7 :> <<BranchStatementWith("Return", RV(3))>>) @@
    (8 :> <<ExpressionStatement(10)>>)

MainLocals == <<LocalSymbol(4, 3, "n"), LocalSymbol(5, 1, "x")>>

\* function definition 7 is the one whose contents are varied
BaseFunctionDefinitions ==
    (1 :> FunctionDefinition(1, 1,
              <<FunctionParameter(1, 1), FunctionParameter(2, 1)>>,
              <<LocalSymbol(1, 1, "a"), LocalSymbol(2, 1, "b"),
                LocalSymbol(3, 2, "t")>>, 1)) @@
    (2 :> FunctionDefinition(4, 2, <<>>, MainLocals, 2)) @@
    (7 :> FunctionDefinition(4, 4, <<>>, <<>>, 4)) @@
    (8 :> FunctionDefinition(1, 4, <<>>, MainLocals, 8))

BasePack ==
    [types |-> BaseTypes,
     functionNames |-> BaseFunctionNames,
     globalSymbols |-> BaseGlobalSymbols,
     rValues |-> BaseRValues,
     statementBlocks |-> BaseStatementBlocks,
     functionDefinitions |-> BaseFunctionDefinitions,
     functionPrototypes |-> <<>>,
     functionDefinitionOrder |-> <<>>]

\* Programs: every prototype list and definition order over these handles
\* (1 and 7 are defined; 3 is declared and never defined)
ProgramFunctions == {1, 3, 7}

ProgramPack(ps, ds) ==
    [BasePack EXCEPT !.functionPrototypes = ps, !.functionDefinitionOrder = ds]

\* Bodies: main's body block is every short sequence of these statements
BodyStatements ==
    {ExpressionStatement(r) : r \in {6, 9, 11, 12}} \cup
    {IfElseStatement(RV(2), 3, 4), IfStatement(GS(1), 2),
     IfStatement(LS(9), 4)} \cup
    {SwitchStatement(GS(9), 4)} \cup
    {BranchStatement("Case")} \cup
    {LoopStatementWith(TRUE, 7, RV(8), 4), LoopStatement(TRUE, RV(5), 6),
     LoopStatementWith(FALSE, 0, LS(5), 9)}

BodyPack(b) ==
    [BasePack EXCEPT !.statementBlocks[2] = b,
                     !.functionDefinitionOrder = <<2>>]

\* Expressions: one rvalue is every operator over every short argument list
ArgumentValues == {LS(5), RV(4)}

ExpressionPack(op, args) ==
    [BasePack EXCEPT !.rValues[10] = OpRValue(op, args),
                     !.functionDefinitionOrder = <<8>>]

\* Signatures: one function definition with every choice of these fields
SignatureLocals ==
    {<<>>,
     <<LocalSymbol(2, 1, "b"), LocalSymbol(1, 1, "a")>>,
     <<LocalSymbol(3, 2, "t"), LocalSymbol(4, 3, "n"), LocalSymbol(1, 1, "a")>>,
     <<LocalSymbol(4, 3, "n"), LocalSymbol(6, 9, "bad")>>}

\* the parameter lists over a table: its own symbols, the sentinel, a stranger
ParameterLists(locals) ==
    LET ids == {locals[i].id : i \in 1..Len(locals)} \cup {0, 9}
        typeOf(id) == IF \E i \in 1..Len(locals) : locals[i].id = id
                      THEN (CHOOSE l \in {locals[i] : i \in 1..Len(locals)} :
                               l.id = id).type
                      ELSE 1
        params == {FunctionParameter(id, typeOf(id)) : id \in ids}
    IN  SeqUpTo(params, MaxParameters)

SignaturePack(returnType, name, parameters, locals, body) ==
    [BasePack EXCEPT
        !.functionDefinitions[7] =
            FunctionDefinition(returnType, name, parameters, locals, body),
        !.functionPrototypes = <<7>>,
        !.functionDefinitionOrder = <<7>>]

(***************************************************************************)
(* CappedArray<T, CAPACITY>, CappedArray.h:29-147.                         *)
(*   arr    the two arrays a and b: mArray (the CAPACITY slots of the      *)
(*          std::array, indexed from 0) and mInd                           *)
(*   ghost  for each array the elements that were inserted and not removed *)
(*          since, oldest first (kept for the properties; no operation     *)
(*          reads it)                                                      *)
(*   ret    the operation done last: its name, the array it was done on,   *)
(*          size() before it, "ok" or "assert" (a failed assert_invariant, *)
(*          which ends the program), the value it returned and the slot it *)
(*          read or wrote (-1: none)                                       *)
(***************************************************************************)
\* the template parameter CAPACITY
CAPACITY == 2

\* the values of the element type T
Items == {1, 2}

Slots == 0..(CAPACITY - 1)

Names == {"a", "b"}

\* uint32_t mInd is held as the integer of -2^31..2^31-1 that is congruent
\* to it modulo 2^32 (-1 stands for 2^32-1, what mInd-- makes of 0), and
\* Less is < on uint32_t
Less(m, n) == IF (m < 0) = (n < 0) THEN m < n ELSE n < 0

\* CappedArray() = default: mInd = 0 and mArray default-initialised, so its
\* slots hold indeterminate values
Constructed == {[mArray |-> m, mInd |-> 0] : m \in [Slots -> Items]}

\* assert_invariant(cond): the program goes on if cond holds and ends if not
assert_invariant(cond) == cond

\* size(), CappedArray.h:123-125
size(array) == array.mInd

Result(op, x, st, value, index) ==
    [op |-> op, who |-> x, other |-> x, before |-> size(arr[x]), st |-> st,
     value |-> value, index |-> index]

CappedInit ==
    /\ arr \in [Names -> Constructed]
    /\ ghost = [x \in Names |-> <<>>]
    /\ ret = [op |-> "CappedArray", who |-> "a", other |-> "a", before |-> 0,
              st |-> "ok",
              value |-> 0, index |-> -1]

Alive == ret.st = "ok"

\* the slot back() reads, CappedArray.h:87
backSlot(mInd) == mInd

\* back(), CappedArray.h:85-88; a read past the end of mArray gives any value
back(x) ==
    /\ Alive
    /\ IF assert_invariant(Less(0, arr[x].mInd))
       THEN \E v \in Items :
               /\ backSlot(arr[x].mInd) \in Slots
                     => v = arr[x].mArray[backSlot(arr[x].mInd)]
               /\ ret' = Result("back", x, "ok", v, backSlot(arr[x].mInd))
       ELSE ret' = Result("back", x, "assert", 0, -1)
    /\ UNCHANGED <<arr, ghost, evars>>

\* the test of pop_back, CappedArray.h:91
canPop(mInd) == Less(0, mInd)

\* pop_back(), CappedArray.h:90-93
pop_back(x) ==
    /\ Alive
    /\ IF assert_invariant(canPop(arr[x].mInd))
       THEN /\ arr' = [arr EXCEPT ![x].mInd = @ - 1]
            /\ ghost' = [ghost EXCEPT ![x] = SubSeq(@, 1, Len(@) - 1)]
            /\ ret' = Result("pop_back", x, "ok", 0, -1)
       ELSE /\ ret' = Result("pop_back", x, "assert", 0, -1)
            /\ UNCHANGED <<arr, ghost>>
    /\ UNCHANGED evars

\* a variant of canInsert that also lets a full array take an element
canInsertAtCapacity(mInd) == ~Less(CAPACITY, mInd)

\* the test of insert, CappedArray.h:100
canInsert(mInd) == Less(mInd, CAPACITY)

\* insert(item), CappedArray.h:99-102
insert(x, item) ==
    /\ Alive
    /\ IF assert_invariant(canInsert(arr[x].mInd))
       THEN /\ arr' = [arr EXCEPT
                          ![x] = [mArray |-> [i \in Slots |->
                                                 IF i = arr[x].mInd THEN item
                                                 ELSE arr[x].mArray[i]],
                                  mInd |-> arr[x].mInd + 1]]
            /\ ghost' = [ghost EXCEPT ![x] = Append(@, item)]
            /\ ret' = Result("insert", x, "ok", 0, arr[x].mInd)
       ELSE /\ ret' = Result("insert", x, "assert", 0, -1)
            /\ UNCHANGED <<arr, ghost>>
    /\ UNCHANGED evars

\* clear(), CappedArray.h:108-113
clear(x) ==
    /\ Alive
    /\ arr' = [arr EXCEPT ![x].mInd = IF @ = 0 THEN @ ELSE 0]
    /\ ghost' = [ghost EXCEPT ![x] = <<>>]
    /\ ret' = Result("clear", x, "ok", 0, -1)
    /\ UNCHANGED evars

\* what operator== compares, CappedArray.h:136
equalArrays(this, b) == this.mArray = b.mArray

\* operator==, CappedArray.h:135-137
operatorEq(x, y) ==
    /\ Alive
    /\ ret' = [Result("operator==", x, "ok", 0, -1) EXCEPT
                  !.value = IF equalArrays(arr[x], arr[y]) THEN 1 ELSE 0,
                  !.other = y]
    /\ UNCHANGED <<arr, ghost, evars>>

\* swap(rhs), CappedArray.h:140-143
swap(this, rhs) == [this |-> rhs, rhs |-> this]

\* operator=(CappedArray&& rhs), CappedArray.h:48-51: x = std::move(y)
moveAssign(x, y) ==
    /\ Alive
    /\ x # y
    /\ arr' = [arr EXCEPT ![x] = swap(arr[x], arr[y]).this,
                          ![y] = swap(arr[x], arr[y]).rhs]
    /\ ghost' = [ghost EXCEPT ![x] = ghost[y], ![y] = ghost[x]]
    /\ ret' = Result("operator=", x, "ok", 0, -1)
    /\ UNCHANGED evars

\* CappedArray(CappedArray&& rhs), CappedArray.h:44-46: the array x is
\* destroyed (~CappedArray, 53-55) and constructed anew from std::move(y)
moveConstruct(x, y) ==
    /\ Alive
    /\ x # y
    /\ \E new \in Constructed :
          arr' = [arr EXCEPT ![x] = swap(new, arr[y]).this,
                             ![y] = swap(new, arr[y]).rhs]
    /\ ghost' = [ghost EXCEPT ![x] = ghost[y], ![y] = <<>>]
    /\ ret' = Result("CappedArray", x, "ok", 0, -1)
    /\ UNCHANGED evars

\* the emitter does not run
EmitterIdle ==
    /\ pack = BasePack
    /\ pc = "returned"
    /\ idx = 1
    /\ fn = 0
    /\ stack = <<>>
    /\ em = NewStream

CappedArrayInit == EmitterIdle /\ CappedInit

CappedArrayNext ==
    \/ \E x \in Names : back(x)
    \/ \E x \in Names : pop_back(x)
    \/ \E x \in Names, item \in Items : insert(x, item)
    \/ \E x \in Names : clear(x)
    \/ \E x \in Names, y \in Names : operatorEq(x, y)
    \/ \E x \in Names, y \in Names : moveAssign(x, y)
    \/ \E x \in Names, y \in Names : moveConstruct(x, y)

CappedArraySpec == CappedArrayInit /\ [][CappedArrayNext]_vars

\* the CappedArrays are not used
CappedIdle ==
    /\ arr = [x \in Names |-> [mArray |-> [i \in Slots |-> 1], mInd |-> 0]]
    /\ ghost = [x \in Names |-> <<>>]
    /\ ret = [op |-> "CappedArray", who |-> "a", other |-> "a", before |-> 0,
              st |-> "ok",
              value |-> 0, index |-> -1]

(***************************************************************************)
(* The walk.                                                               *)
(*   pc    "prototypes"   toGlsl is in the loop over functionPrototypes    *)
(*         "definitions"  toGlsl is in the loop over functionDefinitionOrder*)
(*         "returned"     toGlsl returned                                  *)
(*         "aborted"      a fault unwound toGlsl                           *)
(*   idx   the position of the running loop                                *)
(*   fn    the function dumpFunction was last called for                   *)
(*   stack the call stack, innermost first                                 *)
(*   em    the stream                                                      *)
(***************************************************************************)
Init ==
    /\ \/ \E ps \in SeqUpTo(ProgramFunctions, MaxPrototypes),
             ds \in SeqUpTo(ProgramFunctions, MaxDefinitions) :
             pack = ProgramPack(ps, ds)
       \/ \E b \in SeqUpTo(BodyStatements, MaxStatements) : pack = BodyPack(b)
       \/ \E op \in RValueOperator, args \in SeqUpTo(ArgumentValues, MaxArgs) :
             pack = ExpressionPack(op, args)
       \/ \E returnType \in {1, 9}, name \in {1, 9},
             locals \in SignatureLocals, body \in {4, 9} :
             \E parameters \in ParameterLists(locals) :
                pack = SignaturePack(returnType, name, parameters, locals, body)
    /\ pc = "prototypes"
    /\ idx = 1
    /\ fn = 0
    /\ stack = <<>>
    /\ em = NewStream
    /\ CappedIdle

Top == Head(stack)
Rest == Tail(stack)

\* the walk goes on with the stream s and the stack k, unless s holds a fault:
\* the fault unwinds the stack and toGlsl
Continue(s, k) ==
    IF s.st = "ok"
    THEN /\ em' = s
         /\ stack' = k
         /\ pc' = pc
    ELSE /\ em' = Unwind(s, k)
         /\ stack' = <<>>
         /\ pc' = "aborted"

\* toGlsl calls dumpFunction(pack, functionId, dumpBody, out)
callDumpFunction(functionId, dumpBody) ==
    /\ fn' = functionId
    /\ idx' = idx + 1
    /\ Continue([em EXCEPT !.looks = @ + dumpFunctionLookups(pack, functionId, dumpBody)],
                dumpFunction(pack, functionId, dumpBody)
                    \o <<ReturnItem([fn |-> "dumpFunction", id |-> functionId,
                                     dumpBody |-> dumpBody, pre |-> em.out,
                                     at |-> em.looks])>>)
    /\ UNCHANGED <<pack, cvars>>

\* the handle the prototype loop is at
prototypeAt(p, i) == p.functionPrototypes[i]

\* a variant of definitionAt that walks functionDefinitionOrder backwards
definitionAtFromBack(p, i) ==
    p.functionDefinitionOrder[Len(p.functionDefinitionOrder) + 1 - i]

\* the handle the definition loop is at
definitionAt(p, i) == p.functionDefinitionOrder[i]

\* one iteration of the prototype loop, ToGlsl.cpp:498-500
toGlslPrototype ==
    /\ pc = "prototypes"
    /\ stack = <<>>
    /\ idx <= Len(pack.functionPrototypes)
    /\ callDumpFunction(prototypeAt(pack, idx), FALSE)

\* the prototype loop is over, the definition loop starts
toGlslPrototypesDone ==
    /\ pc = "prototypes"
    /\ stack = <<>>
    /\ idx > Len(pack.functionPrototypes)
    /\ pc' = "definitions"
    /\ idx' = 1
    /\ UNCHANGED <<pack, fn, stack, em, cvars>>

\* one iteration of the definition loop, ToGlsl.cpp:501-503
toGlslDefinition ==
    /\ pc = "definitions"
    /\ stack = <<>>
    /\ idx <= Len(pack.functionDefinitionOrder)
    /\ callDumpFunction(definitionAt(pack, idx), TRUE)

\* the definition loop is over, toGlsl returns
toGlslReturn ==
    /\ pc = "definitions"
    /\ stack = <<>>
    /\ idx > Len(pack.functionDefinitionOrder)
    /\ pc' = "returned"
    /\ UNCHANGED <<pack, idx, fn, stack, em, cvars>>

Running == pc \in {"prototypes", "definitions"} /\ stack # <<>>

\* out << text
emitText ==
    /\ Running
    /\ Top.k = "text"
    /\ Continue(Emit(em, Top.t), Rest)
    /\ UNCHANGED <<pack, idx, fn, cvars>>

\* out << indent, or out << indentMinusOne, at the start of a statement
emitIndent ==
    /\ Running
    /\ Top.k = "indent"
    /\ Continue([Emit(em, Top.t) EXCEPT
                    !.log = Append(@, [fn |-> "indent", t |-> Top.t,
                                       pre |-> em.out, post |-> em.out \o Top.t,
                                       st |-> "ok"])],
                Rest)
    /\ UNCHANGED <<pack, idx, fn, cvars>>

\* a precondition fails
panic ==
    /\ Running
    /\ Top.k = "panic"
    /\ Continue(Panic(em), Rest)
    /\ UNCHANGED <<pack, idx, fn, cvars>>

callDumpType ==
    /\ Running
    /\ Top.k = "type"
    /\ Continue(dumpType(pack, Top.id, em), Rest)
    /\ UNCHANGED <<pack, idx, fn, cvars>>

callDumpFunctionName ==
    /\ Running
    /\ Top.k = "functionName"
    /\ Continue(dumpFunctionName(pack, Top.id, em), Rest)
    /\ UNCHANGED <<pack, idx, fn, cvars>>

callDumpGlobalSymbol ==
    /\ Running
    /\ Top.k = "globalSymbol"
    /\ Continue(dumpGlobalSymbol(pack, Top.id, em), Rest)
    /\ UNCHANGED <<pack, idx, fn, cvars>>

callDumpLocalSymbol ==
    /\ Running
    /\ Top.k = "localSymbol"
    /\ Continue(dumpLocalSymbol(pack, pack.functionDefinitions[fn], Top.id,
                                Top.withType, em), Rest)
    /\ UNCHANGED <<pack, idx, fn, cvars>>

\* dumpRValue is called: a frame more, then its lookups, then its body
callDumpRValue ==
    /\ Running
    /\ Top.k = "rvalue"
    /\ LET s == Enter(em, Rest)
           call == [fn |-> "dumpRValue", id |-> Top.id, pre |-> em.out,
                    at |-> em.looks]
           r == [s EXCEPT !.looks = @ + dumpRValueLookups(pack, Top.id)]
           body == dumpRValue(pack, Top.id)
           \* dumpRValueOperator is called with the stream as it is then
           items == [i \in 1..Len(body) |->
                       IF body[i].k = "return"
                       THEN ReturnItem(body[i].call
                                @@ [pre |-> r.out, at |-> r.looks])
                       ELSE body[i]]
       IN  IF s.st # "ok" THEN Continue(s, Rest)
           ELSE Continue(r, items \o <<ReturnItem(call)>> \o Rest)
    /\ UNCHANGED <<pack, idx, fn, cvars>>

\* dumpBlock is called: a frame more, then its lookups, then its statements
callDumpBlock ==
    /\ Running
    /\ Top.k = "block"
    /\ LET s == Enter(em, Rest)
           call == [fn |-> "dumpBlock", id |-> Top.id, depth |-> Top.depth,
                    pre |-> em.out, at |-> em.looks]
       IN  IF s.st # "ok" THEN Continue(s, Rest)
           ELSE Continue([s EXCEPT !.looks = @ + dumpBlockLookups(pack, Top.id)],
                         dumpBlock(pack, Top.id, Top.depth)
                             \o <<ReturnItem(call)>> \o Rest)
    /\ UNCHANGED <<pack, idx, fn, cvars>>

\* the loop of dumpBlock comes to a statement
doStatement ==
    /\ Running
    /\ Top.k = "statement"
    /\ Continue(em, dumpStatement(Top.statement, Top.depth)
                    \o <<ReturnItem([fn |-> "statement",
                                     statement |-> Top.statement,
                                     depth |-> Top.depth, pre |-> em.out,
                                     at |-> em.looks])>>
                    \o Rest)
    /\ UNCHANGED <<pack, idx, fn, cvars>>

\* a call returns
return ==
    /\ Running
    /\ Top.k = "return"
    /\ Continue([em EXCEPT !.log = Append(@, CallEntry(Top.call, em))], Rest)
    /\ UNCHANGED <<pack, idx, fn, cvars>>

Next ==
    \/ toGlslPrototype
    \/ toGlslPrototypesDone
    \/ toGlslDefinition
    \/ toGlslReturn
    \/ emitText
    \/ emitIndent
    \/ panic
    \/ callDumpType
    \/ callDumpFunctionName
    \/ callDumpGlobalSymbol
    \/ callDumpLocalSymbol
    \/ callDumpRValue
    \/ callDumpBlock
    \/ doStatement
    \/ return

Spec == Init /\ [][Next]_vars

(***************************************************************************)
(* Properties.  They read the log of calls: LogAt(i) is the record of the  *)
(* i-th call that was left, LastCall the one left last.                    *)
(***************************************************************************)
LogLen == Len(em.log)
LogAt(i) == em.log[i]
LastCall == em.log[Len(em.log)]

\* the number of arguments a fixed-arity operator takes
Arity(op) ==
    IF op \in {"Negative", "LogicalNot", "BitwiseNot", "PostIncrement",
               "PostDecrement", "PreIncrement", "PreDecrement", "ArrayLength"}
    THEN 1
    ELSE IF op = "Ternary" THEN 3
    ELSE 2

FixedArity(op) == op \in UnaryOperators \cup BinaryOperators \cup TernaryOperators

\* a call of dumpRValueOperator for a fixed-arity operator with a wrong
\* number of arguments
ArityMismatch(e) ==
    /\ e.fn = "dumpRValueOperator"
    /\ FixedArity(e.op)
    /\ Len(e.args) # Arity(e.op)

\* C1: dumpRValueOperator called for a fixed-arity operator with an argument
\* list of another length raises the precondition fault, which aborts the
\* emission, and the call has appended no text to the output by then.
C1_ArityMismatchFaultsBeforeText ==
    \A i \in 1..LogLen :
        ArityMismatch(LogAt(i)) =>
            /\ LogAt(i).st = "precondition"
            /\ LogAt(i).post = LogAt(i).pre
            /\ pc = "aborted"
            /\ em.st = "precondition"
            /\ em.out = LogAt(i).pre

\* an Index with three arguments and a Ternary with two were both refused
C1_Witness ==
    /\ pc = "aborted"
    /\ \E i \in 1..LogLen :
          /\ ArityMismatch(LogAt(i))
          /\ LogAt(i).op \in {"Index", "Ternary", "PreDecrement", "ModAssign"}
          /\ Len(LogAt(i).args) \in {0, 3}
          /\ LogAt(i).pre = "float g() {\n  int[4][2] n;\n  float x;\n  "

\* the canonical symbol of every binary operator but Index
SYMBOL ==
    [op \in BinaryOperators \ {"Index"} |->
        CASE op = "Add" -> "+"
          [] op = "Sub" -> "-"
          [] op = "Mul" -> "*"
          [] op = "Div" -> "/"
          [] op = "Mod" -> "%"
          [] op = "RightShift" -> ">>"
          [] op = "LeftShift" -> "<<"
          [] op = "And" -> "&"
          [] op = "InclusiveOr" -> "|"
          [] op = "ExclusiveOr" -> "^"
          [] op = "Equal" -> "=="
          [] op = "NotEqual" -> "!="
          [] op = "LessThan" -> "<"
          [] op = "GreaterThan" -> ">"
          [] op = "LessThanEqual" -> "<="
          [] op = "GreaterThanEqual" -> ">="
          [] op = "Comma" -> ","
          [] op = "LogicalOr" -> "||"
          [] op = "LogicalXor" -> "^^"
          [] op = "LogicalAnd" -> "&&"
          [] op = "Assign" -> "="
          [] op = "AddAssign" -> "+="
          [] op = "SubAssign" -> "-="
          [] op = "MulAssign" -> "*="
          [] op = "DivAssign" -> "/="
          [] op = "ModAssign" -> "%="
          [] op = "AndAssign" -> "&="
          [] op = "InclusiveOrAssign" -> "|="
          [] op = "ExclusiveOrAssign" -> "^="
          [] op = "LeftShiftAssign" -> "<<="
          [] op = "RightShiftAssign" -> ">>="]

\* the record e is the emission of the operand v
IsEmitOf(e, v) ==
    /\ e.fn = (CASE v.k = "RValueId" -> "dumpRValue"
                 [] v.k = "GlobalSymbolId" -> "dumpGlobalSymbol"
                 [] v.k = "LocalSymbolId" -> "dumpLocalSymbol")
    /\ e.id = v.id

\* the call e of dumpRValueOperator for a binary operator appended open, the
\* text of its first operand, middle, the text of its second operand, close
BinaryForm(e, open, middle, close) ==
    \E i \in 1..LogLen, j \in 1..LogLen :
        /\ i < j
        /\ IsEmitOf(LogAt(i), e.args[1])
        /\ IsEmitOf(LogAt(j), e.args[2])
        /\ LogAt(i).pre = e.pre \o open
        /\ LogAt(j).pre = LogAt(i).post \o middle
        /\ e.post = LogAt(j).post \o close

\* C2: the text of a binary operator application is "(" emit(lhs) " "
\* SYMBOL[op] " " emit(rhs) ")", and that of an Index is emit(lhs) "["
\* emit(rhs) "]", for every call of dumpRValueOperator that returns.
C2_BinaryOperatorText ==
    (/\ LogLen > 0
     /\ LastCall.fn = "dumpRValueOperator"
     /\ LastCall.st = "ok"
     /\ LastCall.op \in BinaryOperators)
    => IF LastCall.op = "Index"
       THEN BinaryForm(LastCall, "", "[", "]")
       ELSE BinaryForm(LastCall, "(", " " \o SYMBOL[LastCall.op] \o " ", ")")

\* Add of the local symbols a and b was emitted as "(a + b)"
C2_Witness ==
    /\ LogLen > 0
    /\ LastCall.fn = "dumpRValueOperator"
    /\ LastCall.st = "ok"
    /\ LastCall.op = "Add"
    /\ LastCall.args = <<LS(1), LS(2)>>
    /\ LastCall.post = LastCall.pre \o "(a + b)"

\* the placeholder of the sentinel handle of each reference kind
Placeholder(f) ==
    CASE f = "dumpRValue" -> "INVALID_RVALUE"
      [] f = "dumpGlobalSymbol" -> "INVALID_GLOBAL_SYMBOL"
      [] f = "dumpLocalSymbol" -> "INVALID_LOCAL_SYMBOL"

\* the record e is the emission of a sentinel handle
IsSentinelEmit(e) ==
    /\ e.fn \in {"dumpRValue", "dumpGlobalSymbol", "dumpLocalSymbol"}
    /\ e.id = 0

\* C3: emitting the handle 0 of an rvalue, a global symbol or a local symbol
\* appends exactly the placeholder of its kind, looks nothing up in any table
\* and raises no fault, in every Pack and function.
C3_SentinelPlaceholder ==
    \A i \in 1..LogLen :
        IsSentinelEmit(LogAt(i)) =>
            /\ LogAt(i).st = "ok"
            /\ LogAt(i).post = LogAt(i).pre \o Placeholder(LogAt(i).fn)
            /\ LogAt(i).looks = 0

\* the sentinels of all three kinds were emitted in one expression
C3_Witness ==
    /\ pc = "returned"
    /\ \E i \in 1..LogLen, j \in 1..LogLen, k \in 1..LogLen :
          /\ IsSentinelEmit(LogAt(i)) /\ LogAt(i).fn = "dumpRValue"
          /\ IsSentinelEmit(LogAt(j)) /\ LogAt(j).fn = "dumpGlobalSymbol"
          /\ IsSentinelEmit(LogAt(k)) /\ LogAt(k).fn = "dumpLocalSymbol"
          /\ LogAt(k).post = LogAt(i).pre
                \o "INVALID_RVALUE) ? (INVALID_GLOBAL_SYMBOL) : (INVALID_LOCAL_SYMBOL"

\* the record e is a call that dereferences a handle other than the sentinel
\* that has no entry in the table owning it
MissingHandle(e) ==
    \/ e.fn = "dumpType" /\ e.id \notin DOMAIN pack.types
    \/ e.fn = "dumpFunctionName" /\ e.id \notin DOMAIN pack.functionNames
    \/ e.fn = "dumpRValue" /\ e.id # 0 /\ e.id \notin DOMAIN pack.rValues
    \/ e.fn = "dumpGlobalSymbol" /\ e.id # 0
          /\ e.id \notin DOMAIN pack.globalSymbols
    \/ e.fn = "dumpLocalSymbol" /\ e.id # 0 /\ e.id \notin e.symbols
    \/ e.fn = "dumpBlock" /\ e.id \notin DOMAIN pack.statementBlocks
    \/ e.fn = "dumpFunction" /\ e.dumpBody
          /\ e.id \notin DOMAIN pack.functionDefinitions

\* C4: every dereference of a handle that has no entry in its table raises
\* the precondition fault and aborts the emission with it; none is skipped
\* and none fails in another way.
C4_MissingHandleIsPreconditionFault ==
    \A i \in 1..LogLen :
        MissingHandle(LogAt(i)) =>
            /\ LogAt(i).st = "precondition"
            /\ pc = "aborted"
            /\ em.st = "precondition"

\* a call of a function whose name handle has no entry in functionNames left
\* dumpFunctionName by the exception of unordered_map::at
C4_Witness ==
    /\ pc = "aborted"
    /\ em.st = "out_of_range"
    /\ \E i \in 1..LogLen :
          /\ LogAt(i).fn = "dumpFunctionName"
          /\ LogAt(i).id = 9
          /\ LogAt(i).st = "out_of_range"

\* the calls of dumpFunction, in the order they were left
FunctionCalls == SelectSeq(em.log, LAMBDA e : e.fn = "dumpFunction")

\* C5: when toGlsl returns, the output is the text of dumpFunction for every
\* handle of functionPrototypes without body, in that order, followed by the
\* text of dumpFunction for every handle of functionDefinitionOrder with
\* body, in that order, and nothing else.
C5_PrototypesThenDefinitions ==
    pc = "returned" =>
        LET F == FunctionCalls
            np == Len(pack.functionPrototypes)
            nd == Len(pack.functionDefinitionOrder)
        IN  /\ Len(F) = np + nd
            /\ \A i \in 1..np :
                  F[i].id = pack.functionPrototypes[i] /\ ~F[i].dumpBody
            /\ \A j \in 1..nd :
                  F[np + j].id = pack.functionDefinitionOrder[j]
                      /\ F[np + j].dumpBody
            /\ \A i \in 1..Len(F) :
                  F[i].pre = (IF i = 1 THEN "" ELSE F[i - 1].post)
            /\ em.out = (IF F = <<>> THEN "" ELSE F[Len(F)].post)

\* f then g were declared, g then f were defined
C5_Witness ==
    /\ pc = "returned"
    /\ pack.functionPrototypes = <<1, 7>>
    /\ pack.functionDefinitionOrder = <<7, 1>>
    /\ em.out = "float f(float a, float b);\nvoid g();\nvoid g() {\n}\n"
                \o "float f(float a, float b) {\n  highp vec3 t;\n"
                \o "  return (a + b);\n}\n"

\* the text of a type
TypeText(type) ==
    (IF type.precision = "" THEN "" ELSE type.precision \o " ") \o type.name
    \o Join([i \in 1..Len(type.arraySizes) |->
                "[" \o ToString(type.arraySizes[i]) \o "]"])

\* the text of a function name: the stored name up to its first '('
NameText(name) ==
    LET parens == {i \in 1..Len(name) : name[i] = "("}
        n == IF parens = {} THEN Len(name)
             ELSE (CHOOSE i \in parens : \A j \in parens : i <= j) - 1
    IN  Join(SubSeq(name, 1, n))

\* the return type, the name and the parameters of f resolve
WellFormedSignature(p, f) ==
    /\ f.returnType \in DOMAIN p.types
    /\ f.name \in DOMAIN p.functionNames
    /\ \A i \in 1..Len(f.parameters) :
          /\ f.parameters[i].name # 0
          /\ HasLocal(f, f.parameters[i].name)
          /\ LocalAt(f, f.parameters[i].name).type \in DOMAIN p.types

\* "t n" for a parameter: the type and the name of its local symbol
ParameterText(p, f, parameter) ==
    TypeText(p.types[LocalAt(f, parameter.name).type]) \o " "
    \o LocalAt(f, parameter.name).name

\* "R N(t1 n1, ..., tk nk)"
SignatureText(p, f) ==
    TypeText(p.types[f.returnType]) \o " " \o NameText(p.functionNames[f.name])
    \o "("
    \o Join([i \in 1..(IF f.parameters = <<>> THEN 0
                       ELSE 2 * Len(f.parameters) - 1) |->
                IF i % 2 = 1
                THEN ParameterText(p, f, f.parameters[(i + 1) \div 2])
                ELSE ", "])
    \o ")"

\* C6: dumpFunction without body for a handle with no definition appends
\* nothing and raises no fault, and for a handle with a (well-formed)
\* definition it appends the whole prototype; dumpFunction with body for a
\* handle with no definition raises the precondition fault.
C6_PrototypeSkipsDefinitionFaults ==
    \A i \in 1..LogLen :
        LogAt(i).fn = "dumpFunction" =>
            LET E == LogAt(i)
                defined == E.id \in DOMAIN pack.functionDefinitions
            IN  /\ (~E.dumpBody /\ ~defined) =>
                       E.st = "ok" /\ E.post = E.pre
                /\ (~E.dumpBody /\ defined /\ WellFormedSignature(pack,
                        pack.functionDefinitions[E.id])) =>
                       /\ E.st = "ok"
                       /\ E.post = E.pre \o SignatureText(pack,
                              pack.functionDefinitions[E.id]) \o ";\n"
                /\ (E.dumpBody /\ ~defined) =>
                       /\ E.st = "precondition"
                       /\ E.post = E.pre
                       /\ pc = "aborted"

\* f, defined, was declared; handle 3, not defined, was skipped in the
\* prototype pass and was fatal in the definition pass
C6_Witness ==
    /\ pc = "aborted"
    /\ pack.functionPrototypes = <<1, 3>>
    /\ pack.functionDefinitionOrder = <<3>>
    /\ em.out = "float f(float a, float b);\n"
    /\ em.st = "precondition"
    /\ FunctionCalls[2].id = 3 /\ FunctionCalls[2].st = "ok"
    /\ FunctionCalls[3].id = 3 /\ FunctionCalls[3].st = "precondition"

\* the definition f declares no local but its parameters and its body block
\* is empty
BareDefinition(p, f) ==
    /\ \A i \in 1..Len(f.localSymbols) :
          \E j \in 1..Len(f.parameters) :
             f.parameters[j].name = f.localSymbols[i].id
    /\ f.body \in DOMAIN p.statementBlocks
    /\ p.statementBlocks[f.body] = <<>>

\* C7: for a defined function with return type R, name N and parameters
\* (t1 n1) ... (tk nk), the prototype is "R N(t1 n1, ..., tk nk);\n" and the
\* definition with no other locals and an empty body is
\* "R N(t1 n1, ..., tk nk) {\n}\n".
C7_PrototypeAndDefinitionForm ==
    \A i \in 1..LogLen :
        (/\ LogAt(i).fn = "dumpFunction"
         /\ LogAt(i).id \in DOMAIN pack.functionDefinitions
         /\ WellFormedSignature(pack, pack.functionDefinitions[LogAt(i).id]))
        => LET E == LogAt(i)
               f == pack.functionDefinitions[E.id]
           IN  /\ ~E.dumpBody =>
                      E.post = E.pre \o SignatureText(pack, f) \o ";\n"
               /\ (E.dumpBody /\ BareDefinition(pack, f)) =>
                      /\ E.st = "ok"
                      /\ E.post = E.pre \o SignatureText(pack, f) \o " {\n}\n"

\* the prototype of float f with the float parameters a and b, and the
\* definition of void g with no parameter
C7_Witness ==
    /\ pc = "returned"
    /\ pack.functionPrototypes = <<1, 7>>
    /\ pack.functionDefinitionOrder = <<7>>
    /\ FunctionCalls[1].post = "float f(float a, float b);\n"
    /\ FunctionCalls[2].post = FunctionCalls[2].pre \o "void g();\n"
    /\ FunctionCalls[3].post = FunctionCalls[3].pre \o "void g() {\n}\n"

\* the declaration lines of the locals of f that no parameter names, in the
\* order of the table
DeclarationsText(p, f) ==
    Join([i \in 1..Len(f.localSymbols) |->
            IF \E j \in 1..Len(f.parameters) :
                  f.parameters[j].name = f.localSymbols[i].id
            THEN ""
            ELSE "  " \o TypeText(p.types[f.localSymbols[i].type]) \o " "
                 \o f.localSymbols[i].name \o ";\n"])

\* the types of the locals of f resolve
WellFormedLocals(p, f) ==
    \A i \in 1..Len(f.localSymbols) : f.localSymbols[i].type \in DOMAIN p.types

\* C8: in a function definition the locals that no parameter names are
\* declared once each as "  <type> <name>;\n", in the order of the table and
\* before the body block, which is emitted at depth 1; the text of the
\* definition up to the body is the signature, " {\n" and these lines, and
\* after the body it is "}\n".
C8_LocalsDeclaredBeforeBody ==
    (/\ LogLen > 1
     /\ LastCall.fn = "dumpFunction"
     /\ LastCall.dumpBody
     /\ LastCall.id \in DOMAIN pack.functionDefinitions
     /\ WellFormedSignature(pack, pack.functionDefinitions[LastCall.id])
     /\ WellFormedLocals(pack, pack.functionDefinitions[LastCall.id]))
    => LET E == LastCall
           B == LogAt(LogLen - 1)
           f == pack.functionDefinitions[E.id]
       IN  /\ B.fn = "dumpBlock"
           /\ B.id = f.body
           /\ B.depth = 1
           /\ B.pre = E.pre \o SignatureText(pack, f) \o " {\n"
                          \o DeclarationsText(pack, f)
           /\ E.st = "ok" => E.post = B.post \o "}\n"

\* t and n, the locals of f(a) that are no parameter, were declared in the
\* order of the table and a was not
C8_Witness ==
    /\ pc = "returned"
    /\ em.out = "float f(float a);\n"
                \o "float f(float a) {\n  highp vec3 t;\n  int[4][2] n;\n}\n"
    /\ LastCall.fn = "dumpFunction"
    /\ LastCall.dumpBody
    /\ Len(pack.functionDefinitions[LastCall.id].localSymbols) = 3

\* the blocks and rvalues of the IR, and the ones each refers to
BlockNode(id) == [t |-> "block", id |-> id]
RValueNode(id) == [t |-> "rvalue", id |-> id]

ValueRefs(v) == IF v.k = "RValueId" THEN {RValueNode(v.id)} ELSE {}

StatementRefs(st) ==
    CASE st.kind = "expression" -> {RValueNode(st.rValueId)}
      [] st.kind = "if" ->
           ValueRefs(st.condition) \cup {BlockNode(st.thenBlock)}
           \cup (IF st.hasElse THEN {BlockNode(st.elseBlock)} ELSE {})
      [] st.kind = "switch" -> ValueRefs(st.condition) \cup {BlockNode(st.body)}
      [] st.kind = "branch" ->
           IF st.hasOperand THEN ValueRefs(st.operand) ELSE {}
      [] st.kind = "loop" ->
           ValueRefs(st.condition) \cup {BlockNode(st.body)}
           \cup (IF st.hasTerminal /\ st.testFirst
                 THEN {RValueNode(st.terminal)} ELSE {})

Refs(p, n) ==
    IF n.t = "block"
    THEN IF n.id \in DOMAIN p.statementBlocks
         THEN UNION {StatementRefs(p.statementBlocks[n.id][i]) :
                        i \in 1..Len(p.statementBlocks[n.id])}
         ELSE {}
    ELSE IF n.id \in DOMAIN p.rValues /\ p.rValues[n.id].kind # "literal"
         THEN UNION {ValueRefs(p.rValues[n.id].args[i]) :
                        i \in 1..Len(p.rValues[n.id].args)}
         ELSE {}

\* the body blocks of the functions toGlsl defines
Roots(p) ==
    {BlockNode(p.functionDefinitions[p.functionDefinitionOrder[i]].body) :
        i \in {j \in 1..Len(p.functionDefinitionOrder) :
                  p.functionDefinitionOrder[j] \in DOMAIN p.functionDefinitions}}

\* everything the nodes of S refer to, directly or not, and S
RECURSIVE Reach(_, _)
Reach(p, S) ==
    LET T == S \cup UNION {Refs(p, n) : n \in S}
    IN  IF T = S THEN S ELSE Reach(p, T)

\* a block or rvalue that toGlsl emits refers back to itself
Cyclic(p) ==
    \E n \in Reach(p, Roots(p)) : n \in Reach(p, Refs(p, n))

\* the longest chain of references from n, counted in blocks and rvalues
RECURSIVE ChainFrom(_, _)
ChainFrom(p, n) ==
    LET below == {ChainFrom(p, m) : m \in Refs(p, n)}
    IN  1 + (IF below = {} THEN 0
             ELSE CHOOSE d \in below : \A e \in below : e <= d)

\* the nesting depth of the IR toGlsl emits (of a Pack that is not cyclic)
NestingDepth(p) ==
    LET chains == {ChainFrom(p, n) : n \in Roots(p)}
    IN  IF chains = {} THEN 0
        ELSE CHOOSE d \in chains : \A e \in chains : e <= d

\* C9 as stated: the emission of every Pack, also of one whose blocks or
\* rvalues refer back to one being emitted, returns or aborts on a
\* precondition of the emitter; it never recurses until the call stack is
\* used up.
C9_EveryEmissionIsFinite ==
    em.st # "overflow"

\* C9, for the Packs that are not cyclic: the emission never uses up the call
\* stack, the dumpBlock and dumpRValue frames on it are never more than the
\* nesting depth of the IR, and it goes on until toGlsl returns or a fault
\* aborts it.
C9_AcyclicEmissionIsBounded ==
    /\ em.st = "overflow" => Cyclic(pack)
    /\ (pc \in {"returned", "aborted"} /\ em.st # "overflow")
          => (Cyclic(pack) \/ em.maxsd <= NestingDepth(pack))
    /\ pc \in {"returned", "aborted"} \/ ENABLED Next

\* main, with a shared block and five levels of nesting, was emitted with
\* five frames at most
C9_Witness ==
    /\ pc = "returned"
    /\ pack = BodyPack(BaseStatementBlocks[2])
    /\ ~Cyclic(pack)
    /\ NestingDepth(pack) = 5
    /\ em.maxsd = 5

\* n indentation units
Units(n) == Join([i \in 1..n |-> "  "])

IsCaseOrDefault(st) == st.kind = "branch" /\ st.op \in {"Case", "Default"}

\* C10: a statement that the loop of dumpBlock reaches at depth d starts
\* with d indentation units, unless it is a Case or Default branch: that one
\* starts with d - 1 units.
C10_CaseIndentedOneLess ==
    \A i \in 1..LogLen :
        LogAt(i).fn = "statement" =>
            \E j \in 1..i :
                /\ LogAt(j).fn = "indent"
                /\ LogAt(j).pre = LogAt(i).pre
                /\ LogAt(j).t = Units(IF IsCaseOrDefault(LogAt(i).statement)
                                      THEN LogAt(i).depth - 1
                                      ELSE LogAt(i).depth)

\* in the body of a switch at depth 3, case started with two units and break
\* with three
C10_Witness ==
    /\ pc = "returned"
    /\ \E i \in 1..LogLen, j \in 1..LogLen :
          /\ LogAt(i).fn = "statement" /\ LogAt(j).fn = "statement"
          /\ LogAt(i).depth = 3 /\ LogAt(j).depth = 3
          /\ LogAt(i).statement = BranchStatementWith("Case", RV(3))
          /\ LogAt(j).statement = BranchStatement("Break")
          /\ LogAt(i).post = LogAt(i).pre \o "    case LITERAL:\n"
          /\ LogAt(j).post = LogAt(j).pre \o "      break;\n"


\* the call of dumpBlock for a block at a depth
IsBlockOf(e, blockId, depth) ==
    e.fn = "dumpBlock" /\ e.id = blockId /\ e.depth = depth

\* a statement of a kind that the loop of dumpBlock reached and finished
IsStatementOf(e, kind) ==
    e.fn = "statement" /\ e.st = "ok" /\ e.statement.kind = kind

\* the call that returned last is such a statement (every call that returns
\* is the last entry of the log in the state its return leads to)
Finished(kind) == LogLen > 0 /\ IsStatementOf(LastCall, kind)

\* C12: a loop statement is emitted, after its indentation I, in the one
\* shape that testFirst and terminal select: with testFirst and a terminal,
\* "for (; " cond "; " terminal ") {\n", the body at depth + 1, I "}\n", with
\* nothing between the terminal and ")"; with testFirst and no terminal,
\* "while (" cond ") {\n", the body at depth + 1, I "}\n"; without testFirst,
\* "do {\n", the body at depth + 1, I "} while (" cond ");\n".
C12_LoopShapes ==
    Finished("loop") =>
        LET e == LastCall
            loop == e.statement
            I == Units(e.depth)
            Condition(c, pre) ==
                IsEmitOf(LogAt(c), loop.condition) /\ LogAt(c).pre = pre
            Body(b, pre) ==
                IsBlockOf(LogAt(b), loop.body, e.depth + 1) /\ LogAt(b).pre = pre
        IN  IF loop.testFirst /\ loop.hasTerminal
            THEN \E c \in 1..LogLen :
                    /\ Condition(c, e.pre \o I \o "for (; ")
                    /\ \E t \in 1..LogLen :
                          /\ LogAt(t).fn = "dumpRValue"
                          /\ LogAt(t).id = loop.terminal
                          /\ LogAt(t).pre = LogAt(c).post \o "; "
                          /\ \E b \in 1..LogLen :
                                /\ Body(b, LogAt(t).post \o ") {\n")
                                /\ e.post = LogAt(b).post \o I \o "}\n"
            ELSE IF loop.testFirst
            THEN \E c \in 1..LogLen :
                    /\ Condition(c, e.pre \o I \o "while (")
                    /\ \E b \in 1..LogLen :
                          /\ Body(b, LogAt(c).post \o ") {\n")
                          /\ e.post = LogAt(b).post \o I \o "}\n"
            ELSE \E b \in 1..LogLen :
                    /\ Body(b, e.pre \o I \o "do {\n")
                    /\ \E c \in 1..LogLen :
                          /\ Condition(c, LogAt(b).post \o I \o "} while (")
                          /\ e.post = LogAt(c).post \o ");\n"

\* main was emitted with a for with an empty body and a while at depth 1, and
\* in the body of the while a do-while with an empty body at depth 2
C12_Witness ==
    /\ pc = "returned"
    /\ em.st = "ok"
    /\ \E i \in 1..LogLen :
          /\ IsStatementOf(LogAt(i), "loop")
          /\ LogAt(i).statement = LoopStatementWith(TRUE, 7, RV(8), 4)
          /\ LogAt(i).post = LogAt(i).pre
                \o "  for (; (n < INVALID_GLOBAL_SYMBOL); n++) {\n  }\n"
    /\ \E j \in 1..LogLen :
          /\ IsStatementOf(LogAt(j), "loop")
          /\ LogAt(j).statement = LoopStatement(TRUE, RV(5), 6)
          /\ \E b \in 1..LogLen :
                /\ IsBlockOf(LogAt(b), 6, 2)
                /\ LogAt(b).pre = LogAt(j).pre \o "  while (sin(x, u)) {\n"
                /\ LogAt(j).post = LogAt(b).post \o "  }\n"
    /\ \E k \in 1..LogLen :
          /\ IsStatementOf(LogAt(k), "loop")
          /\ LogAt(k).statement = LoopStatement(FALSE, LS(5), 4)
          /\ LogAt(k).post = LogAt(k).pre \o "    do {\n    } while (x);\n"

\* an if statement at indentation I is I "if (" cond ") {\n", the then-block
\* at depth + 1, with an else-block I "} else {\n" and the else-block at
\* depth + 1, and one final I "}\n"
IfShape ==
    Finished("if") =>
        LET e == LastCall
            I == Units(e.depth)
        IN  \E c \in 1..LogLen :
              /\ IsEmitOf(LogAt(c), e.statement.condition)
              /\ LogAt(c).pre = e.pre \o I \o "if ("
              /\ \E t \in 1..LogLen :
                /\ IsBlockOf(LogAt(t), e.statement.thenBlock, e.depth + 1)
                /\ LogAt(t).pre = LogAt(c).post \o ") {\n"
                /\ IF e.statement.hasElse
                   THEN \E b \in 1..LogLen :
                           /\ IsBlockOf(LogAt(b), e.statement.elseBlock,
                                        e.depth + 1)
                           /\ LogAt(b).pre = LogAt(t).post \o I \o "} else {\n"
                           /\ e.post = LogAt(b).post \o I \o "}\n"
                   ELSE e.post = LogAt(t).post \o I \o "}\n"

\* the if statement of the example: the condition is LogicalNot of the local
\* x, the then-block holds a Return whose operand is the literal 1, and
\* there is no else-block
IsExampleIf(p, if) ==
    /\ if.kind = "if"
    /\ ~if.hasElse
    /\ if.condition = RV(2)
    /\ p.rValues[2] = OpRValue("LogicalNot", <<LS(5)>>)
    /\ p.functionDefinitions[2].localSymbols[2] = LocalSymbol(5, 1, "x")
    /\ p.statementBlocks[if.thenBlock] = <<BranchStatementWith("Return", RV(3))>>
    /\ p.rValues[3].kind = "literal"
    /\ p.rValues[3].value = 1

\* C13: an if statement at indentation I is emitted as I "if (<cond>) {\n",
\* the then-block at depth + 1, only with an else-block I "} else {\n" and
\* the else-block at depth + 1, and one final I "}\n"; so the if whose
\* condition is LogicalNot of the local x and whose then-block holds a Return
\* with operand 1 is emitted as "if (!(x)) {\n  return 1;\n}\n", each line
\* after I.
C13_IfEmission ==
    /\ IfShape
    /\ (Finished("if") /\ IsExampleIf(pack, LastCall.statement)) =>
           LET e == LastCall
               I == Units(e.depth)
           IN  e.post = e.pre \o I \o "if (!(x)) {\n"
                              \o I \o "  return 1;\n"
                              \o I \o "}\n"

\* the if of the example was emitted at depth 2, with LITERAL for the
\* operand of its return
C13_Witness ==
    /\ Finished("if")
    /\ IsExampleIf(pack, LastCall.statement)
    /\ LastCall.depth = 2
    /\ LastCall.post = LastCall.pre \o "    if (!(x)) {\n"
                                    \o "      return LITERAL;\n"
                                    \o "    }\n"

\* the keyword of each branch operator
Keyword(op) ==
    CASE op = "Discard" -> "discard"
      [] op = "TerminateInvocation" -> "terminateInvocation"
      [] op = "Demote" -> "demote"
      [] op = "TerminateRayEXT" -> "terminateRayEXT"
      [] op = "IgnoreIntersectionEXT" -> "terminateIntersectionEXT"
      [] op = "Return" -> "return"
      [] op = "Break" -> "break"
      [] op = "Continue" -> "continue"
      [] op = "Case" -> "case"
      [] op = "Default" -> "default"

\* C14: a branch statement is emitted, after its indentation, as the keyword
\* of its operator, then, if and only if it has an operand, one space and the
\* text of the operand, then ":\n" if it is a Case or a Default and ";\n" if
\* it is any other branch.
C14_BranchForm ==
    Finished("branch") =>
        LET e == LastCall
            branch == e.statement
            start == e.pre \o Units(IF IsCaseOrDefault(branch)
                                    THEN e.depth - 1 ELSE e.depth)
                           \o Keyword(branch.op)
            terminator == IF IsCaseOrDefault(branch) THEN ":\n" ELSE ";\n"
        IN  IF branch.hasOperand
            THEN \E c \in 1..LogLen :
                    /\ IsEmitOf(LogAt(c), branch.operand)
                    /\ LogAt(c).pre = start \o " "
                    /\ e.post = LogAt(c).post \o terminator
            ELSE e.post = start \o terminator

\* main was emitted with a branch of every operator, a case and a return
\* with an operand among them
C14_Witness ==
    /\ pc = "returned"
    /\ em.st = "ok"
    /\ \A op \in BranchOperator :
          \E i \in 1..LogLen :
              IsStatementOf(LogAt(i), "branch") /\ LogAt(i).statement.op = op
    /\ \E i \in 1..LogLen :
          /\ IsStatementOf(LogAt(i), "branch")
          /\ LogAt(i).statement = BranchStatementWith("Case", RV(3))
          /\ LogAt(i).post = LogAt(i).pre \o "    case LITERAL:\n"
    /\ \E j \in 1..LogLen :
          /\ IsStatementOf(LogAt(j), "branch")
          /\ LogAt(j).statement = BranchStatementWith("Return", RV(3))
          /\ LogAt(j).post = LogAt(j).pre \o "      return LITERAL;\n"
    /\ \E k \in 1..LogLen :
          /\ IsStatementOf(LogAt(k), "branch")
          /\ LogAt(k).statement = BranchStatement("IgnoreIntersectionEXT")
          /\ LogAt(k).post = LogAt(k).pre \o "    terminateIntersectionEXT;\n"

(***************************************************************************)
(* Properties of CappedArray, under CappedArraySpec.                       *)
(***************************************************************************)
\* C11: whatever insert, pop_back, clear, move construction and move
\* assignment were done, each array has 0 <= size() <= CAPACITY (and size()
\* is the number of elements inserted and not removed); an insert into a full
\* array fails its assertion, writes no slot and leaves size() at CAPACITY,
\* every other insert writes a slot of the storage; a pop_back on an empty
\* array fails its assertion and leaves size() at 0.
C11_SizeWithinCapacity ==
    /\ \A x \in Names :
          /\ 0 <= size(arr[x])
          /\ size(arr[x]) <= CAPACITY
          /\ size(arr[x]) = Len(ghost[x])
    /\ ret.op = "insert" =>
          IF ret.before = CAPACITY
          THEN /\ ret.st = "assert"
               /\ ret.index = -1
               /\ size(arr[ret.who]) = CAPACITY
          ELSE /\ ret.st = "ok"
               /\ ret.index = ret.before
               /\ ret.index \in Slots
               /\ size(arr[ret.who]) = ret.before + 1
    /\ ret.op = "pop_back" =>
          IF ret.before = 0
          THEN /\ ret.st = "assert"
               /\ size(arr[ret.who]) = 0
          ELSE /\ ret.st = "ok"
               /\ size(arr[ret.who]) = ret.before - 1

\* an insert into a full array was rejected while the other array, which
\* took part in a move, is not empty
C11_Witness ==
    /\ ret.op = "insert"
    /\ ret.before = CAPACITY
    /\ ret.st = "assert"
    /\ \E y \in Names \ {ret.who} : size(arr[y]) > 0 /\ size(arr[y]) < CAPACITY


\* C15: for an array with size() > 0, back() returns the element inserted
\* last and not removed since, which is the element of slot size() - 1; the
\* slot it reads is a slot of the storage below size().
C15_BackReturnsLastInserted ==
    (ret.op = "back" /\ ret.st = "ok") =>
        /\ ret.index = ret.before - 1
        /\ ret.index \in Slots
        /\ ret.value = ghost[ret.who][Len(ghost[ret.who])]
        /\ ret.value = arr[ret.who].mArray[size(arr[ret.who]) - 1]

\* back() was called on a full array
C15_Witness ==
    /\ ret.op = "back"
    /\ ret.st = "ok"
    /\ ret.before = CAPACITY
    /\ Len(ghost[ret.who]) = CAPACITY

\* C16: a == b holds exactly when the two arrays have the same size() and
\* the same elements in their first size() slots, which are the elements
\* inserted and not removed; what the slots from size() on hold plays no part.
C16_EqualityIsLogical ==
    (ret.op = "operator==") =>
        /\ (ret.value = 1) <=> (ghost[ret.who] = ghost[ret.other])
        /\ (ret.value = 1) <=>
              /\ size(arr[ret.who]) = size(arr[ret.other])
              /\ \A i \in Slots :
                    i < size(arr[ret.who]) =>
                        arr[ret.who].mArray[i] = arr[ret.other].mArray[i]

\* two arrays of one element each were compared, with the same element
C16_Witness ==
    /\ ret.op = "operator=="
    /\ ret.who # ret.other
    /\ Len(ghost[ret.who]) = 1
    /\ ghost[ret.who] = ghost[ret.other]

=============================================================================
